---- MODULE Spec2Model ----
(***************************************************************************)
(* A model of the weave front end: the tokenizer (src/src/lexer.rs), the   *)
(* declaration parser (src/src/parser.rs) and the expression evaluator     *)
(* with its environment (src/src/interpreter.rs).                          *)
(*                                                                         *)
(* Characters are one-character strings, text (String, &str) is a sequence *)
(* of characters, Option<T> is a sequence of length 0 or 1.  Records of    *)
(* one kind always carry the same fields, so that any two are comparable.  *)
(***************************************************************************)
EXTENDS Integers, Sequences, FiniteSets, TLC

VARIABLES
    lexInput,    \* the text the reader was created over
    lexer,       \* Lexer { reader, pos }: the unread text and the position
    lexTokens,   \* read_tokens: the tokens pushed so far
    lexStatus,   \* "ready", "done" (read_token gave None) or "err"
    lexErr,      \* Option: the error read_token returned
    evExpr,      \* the expression handed to eval_expr
    evResult,    \* Option: what eval_expr did with it
    frames,      \* Environment.frames
    envOp,       \* the last Environment operation (or eval of a variable)
    envResult,   \* Option: what that operation returned
    prsInput,    \* the tokens the Parser was created over
    tokens,      \* Parser.tokens
    prsResult    \* Option: what parse_program returned

lexVars == <<lexInput, lexer, lexTokens, lexStatus, lexErr>>
evVars  == <<evExpr, evResult>>
envVars == <<frames, envOp, envResult>>
prsVars == <<prsInput, tokens, prsResult>>
vars    == <<lexVars, evVars, envVars, prsVars>>

(***************************************************************************)
(* Bounds.                                                                 *)
(***************************************************************************)
MaxLen == 4          \* length of the enumerated source texts
MaxInt == 3          \* the Int constants of the expressions are -1..MaxInt
MaxArgs == 2         \* arguments of a function call
MaxFrames == 1       \* frames of the environments the model starts from
MaxBindings == 2     \* pairs of a frame of those environments
MaxToks == 5         \* tokens after the opening of a parameter or field list
MaxTop == 3          \* tokens of the enumerated top-level token sequences

(***************************************************************************)
(* Characters.                                                             *)
(***************************************************************************)
Digits == <<"0", "1", "2", "3", "4", "5", "6", "7", "8", "9">>

DigitSet == {Digits[i] : i \in 1..10}

LetterSet ==
    {"a", "b", "c", "d", "e", "f", "g", "h", "i", "j", "k", "l", "m",
     "n", "o", "p", "q", "r", "s", "t", "u", "v", "w", "x", "y", "z",
     "A", "B", "C", "D", "E", "F", "G", "H", "I", "J", "K", "L", "M",
     "N", "O", "P", "Q", "R", "S", "T", "U", "V", "W", "X", "Y", "Z"}

\* The character '\0', which no source text of the model holds.
NUL == "<NUL>"

IsWhitespace(c) == c \in {" ", "\t", "\n", "\r", "\f"}

IsDigit(c) == c \in DigitSet

IsAlphanumeric(c) == c \in DigitSet \cup LetterSet

IsControl(c) == c \in {"[", "]", "(", ")", "{", "}", ",", ".", ";"}

(***************************************************************************)
(* Tokens.                                                                 *)
(***************************************************************************)
Tok(k) == [kind |-> k, text |-> <<>>, num |-> 0, op |-> "None"]

TokText(k, s) == [kind |-> k, text |-> s, num |-> 0, op |-> "None"]

TokInt(n) == [kind |-> "IntLit", text |-> <<>>, num |-> n, op |-> "None"]

TokOp(k, o) == [kind |-> k, text |-> <<>>, num |-> 0, op |-> o]

Position(l, c) == [line |-> l, col |-> c]

TokenContext(k, l, r) == [kind |-> k, lpos |-> l, rpos |-> r]

\* A lexical error: the message, the text it quotes and, when the message
\* holds "between {} and {}", the two positions.
LexError(m, s, span) == [msg |-> m, text |-> s, span |-> span]

(***************************************************************************)
(* Lexer: the reader.                                                      *)
(***************************************************************************)
NewLexer(text) == [rest |-> text, pos |-> Position(0, 0)]

\* read: one character off the reader; a newline adds one to the line and
\* leaves the column, any other character adds one to the column.
\* read that, at a newline, sets the column to zero and keeps the line.
LexRead_NewlineKeepsLine(lx) ==
    IF lx.rest = <<>>
    THEN [lx |-> lx, c |-> <<>>]
    ELSE LET c == Head(lx.rest) IN
         [lx |-> [rest |-> Tail(lx.rest),
                  pos  |-> IF c = "\n"
                           THEN Position(lx.pos.line, 0)
                           ELSE Position(lx.pos.line, lx.pos.col + 1)],
          c  |-> <<c>>]

LexRead(lx) ==
    IF lx.rest = <<>>
    THEN [lx |-> lx, c |-> <<>>]
    ELSE LET c == Head(lx.rest) IN
         [lx |-> [rest |-> Tail(lx.rest),
                  pos  |-> IF c = "\n"
                           THEN Position(lx.pos.line + 1, lx.pos.col)
                           ELSE Position(lx.pos.line, lx.pos.col + 1)],
          c  |-> <<c>>]

LexPeek(lx) == IF lx.rest = <<>> THEN <<>> ELSE <<Head(lx.rest)>>

\* consume: drops one character of the reader's buffer; the position stays.
LexConsume(lx) ==
    IF lx.rest = <<>> THEN lx ELSE [lx EXCEPT !.rest = Tail(lx.rest)]

RECURSIVE SkipSpaces(_)
\* skip_spaces that stops at a newline.
SkipSpaces_StopsAtNewline(lx) ==
    LET p == LexPeek(lx) IN
    IF p # <<>> /\ IsWhitespace(p[1]) /\ p[1] # "\n"
    THEN SkipSpaces(LexConsume(lx))
    ELSE lx

\* skip_spaces: consumes the whitespace in front of the reader.
SkipSpaces(lx) ==
    LET p == LexPeek(lx) IN
    IF p # <<>> /\ IsWhitespace(p[1])
    THEN SkipSpaces(LexConsume(lx))
    ELSE lx

(***************************************************************************)
(* Lexer: literals.                                                        *)
(***************************************************************************)
\* match_escseq: the character an escape stands for, or an error.
MatchEscseq(c, term) ==
    IF c = "\\" THEN [err |-> <<>>, c |-> "\\"]
    ELSE IF c = "n" THEN [err |-> <<>>, c |-> "\n"]
    ELSE IF c = "t" THEN [err |-> <<>>, c |-> "\t"]
    ELSE IF c = "r" THEN [err |-> <<>>, c |-> "\r"]
    ELSE IF c = "0" THEN [err |-> <<>>, c |-> NUL]
    ELSE IF c = term THEN [err |-> <<>>, c |-> term]
    ELSE [err |-> <<LexError("Invalid esc seq", <<c>>, <<>>)>>, c |-> c]

\* match_control: the token of a one-character delimiter, if it is one.
MatchControl(lx, c, lpos) ==
    LET k == CASE c = "[" -> "LBracket"
               [] c = "]" -> "RBracket"
               [] c = "(" -> "LParen"
               [] c = ")" -> "RParen"
               [] c = "{" -> "LBrace"
               [] c = "}" -> "RBrace"
               [] c = "," -> "Comma"
               [] c = "." -> "Dot"
               [] c = ";" -> "SemiColon"
               [] OTHER   -> "None"
    IN IF k = "None" THEN <<>> ELSE <<TokenContext(Tok(k), lpos, lx.pos)>>

\* The while-let loop of scan_text: it ends at the terminator, at an invalid
\* escape, and when read() returns None at the end of the input.
RECURSIVE ScanTextLoop(_, _, _, _)
ScanTextLoop(lx, term, isesc, str) ==
    LET r == LexRead(lx) IN
    IF r.c = <<>>
    THEN [lx |-> r.lx, err |-> <<>>, str |-> str]
    ELSE LET c == r.c[1] IN
         IF isesc
         THEN LET e == MatchEscseq(c, term) IN
              IF e.err # <<>>
              THEN [lx |-> r.lx, err |-> e.err, str |-> str]
              ELSE ScanTextLoop(r.lx, term, FALSE, Append(str, e.c))
         ELSE IF c = "\\" THEN ScanTextLoop(r.lx, term, TRUE, str)
         ELSE IF c = term THEN [lx |-> r.lx, err |-> <<>>, str |-> str]
         ELSE ScanTextLoop(r.lx, term, FALSE, Append(str, c))

ScanText(lx, term) ==
    LET r == ScanTextLoop(lx, term, FALSE, <<>>) IN
    [lx |-> r.lx, err |-> r.err, str |-> r.str, lpos |-> lx.pos, rpos |-> r.lx.pos]

\* What read_token and the scan_* functions return: Result<Option<..>, String>.
LexOk(lx, tok) == [lx |-> lx, err |-> <<>>, tok |-> tok]

LexFail(lx, e) == [lx |-> lx, err |-> <<e>>, tok |-> <<>>]

ScanChar(lx) ==
    LET r == ScanText(lx, "'") IN
    IF r.err # <<>> THEN LexFail(r.lx, r.err[1])
    ELSE IF Len(r.str) = 1
    THEN LexOk(r.lx, <<TokenContext(TokText("CharLit", r.str), r.lpos, r.rpos)>>)
    ELSE LexFail(r.lx, LexError("Invalid char", r.str, <<r.lpos, r.rpos>>))

ScanString(lx) ==
    LET r == ScanText(lx, "\"") IN
    IF r.err # <<>> THEN LexFail(r.lx, r.err[1])
    ELSE LexOk(r.lx, <<TokenContext(TokText("StrLit", r.str), r.lpos, r.rpos)>>)

(***************************************************************************)
(* Lexer: numbers.                                                         *)
(***************************************************************************)
I32Max == 2147483647

DigitValue(c) == CHOOSE i \in 0..9 : Digits[i + 1] = c

\* str::parse::<i32> of a text that starts with a digit: every character a
\* digit and the value within i32, anything else an error.
RECURSIVE ParseI32Loop(_, _)
ParseI32Loop(s, acc) ==
    IF s = <<>> THEN [ok |-> TRUE, val |-> acc]
    ELSE IF ~IsDigit(Head(s)) THEN [ok |-> FALSE, val |-> 0]
    ELSE LET d == DigitValue(Head(s)) IN
         IF acc > (I32Max - d) \div 10
         THEN [ok |-> FALSE, val |-> 0]
         ELSE ParseI32Loop(Tail(s), acc * 10 + d)

ParseI32(s) == IF s = <<>> THEN [ok |-> FALSE, val |-> 0] ELSE ParseI32Loop(s, 0)

RECURSIVE DropDigits(_)
DropDigits(s) == IF s # <<>> /\ IsDigit(Head(s)) THEN DropDigits(Tail(s)) ELSE s

\* str::parse::<f64> of a text that starts with a digit: digits, an optional
\* '.' and digits, an optional exponent of 'e' or 'E' and digits.  The value
\* is kept as the decimal text.
ParseF64(s) ==
    LET a == DropDigits(s)
        b == IF a # <<>> /\ Head(a) = "." THEN DropDigits(Tail(a)) ELSE a
        e == IF b # <<>> /\ Head(b) \in {"e", "E"} THEN Tail(b) ELSE b
    IN [ok  |-> /\ s # <<>>
                /\ a # s
                /\ \/ b = <<>>
                   \/ e # b /\ e # <<>> /\ DropDigits(e) = <<>>,
        val |-> s]

\* The while-let loop of scan_number: a character that is not alphanumeric
\* ends it, before the test for '.'.
RECURSIVE ScanNumberLoop(_, _, _)
ScanNumberLoop(lx, is_int, tokstr) ==
    LET p == LexPeek(lx) IN
    IF p = <<>> \/ ~IsAlphanumeric(p[1])
    THEN [lx |-> lx, is_int |-> is_int, tokstr |-> tokstr]
    ELSE ScanNumberLoop(LexConsume(lx),
                        IF p[1] = "." THEN FALSE ELSE is_int,
                        Append(tokstr, p[1]))

ScanNumber(lx, c) ==
    LET lpos == lx.pos
        r    == ScanNumberLoop(lx, TRUE, <<c>>)
        rpos == r.lx.pos
    IN IF r.is_int
       THEN LET n == ParseI32(r.tokstr) IN
            IF n.ok
            THEN LexOk(r.lx, <<TokenContext(TokInt(n.val), lpos, rpos)>>)
            ELSE LexFail(r.lx, LexError("Invalid int", r.tokstr, <<lpos, rpos>>))
       ELSE LET f == ParseF64(r.tokstr) IN
            IF f.ok
            THEN LexOk(r.lx, <<TokenContext(TokText("FloatLit", f.val), lpos, rpos)>>)
            ELSE LexFail(r.lx, LexError("Invalid float", r.tokstr, <<lpos, rpos>>))

(***************************************************************************)
(* Lexer: keywords, identifiers and operators.                             *)
(***************************************************************************)
RECURSIVE ScanKeywordLoop(_, _)
ScanKeywordLoop(lx, tokstr) ==
    LET p == LexPeek(lx) IN
    IF p = <<>> \/ (p[1] # "_" /\ ~IsAlphanumeric(p[1]))
    THEN [lx |-> lx, tokstr |-> tokstr]
    ELSE ScanKeywordLoop(LexConsume(lx), Append(tokstr, p[1]))

Keyword(s) ==
    CASE s = <<"f", "n">> -> Tok("Fn")
      [] s = <<"s", "t", "r", "u", "c", "t">> -> Tok("Struct")
      [] s = <<"t", "y", "p", "e">> -> Tok("Type")
      [] s = <<"r", "e", "t", "u", "r", "n">> -> Tok("Return")
      [] s = <<"b", "r", "e", "a", "k">> -> Tok("Break")
      [] s = <<"c", "o", "n", "t", "i", "n", "u", "e">> -> Tok("Continue")
      [] s = <<"w", "h", "i", "l", "e">> -> Tok("While")
      [] s = <<"f", "o", "r">> -> Tok("For")
      [] s = <<"i", "n">> -> Tok("In")
      [] s = <<"t", "r", "u", "e">> -> Tok("True")
      [] s = <<"f", "a", "l", "s", "e">> -> Tok("False")
      [] s = <<"i", "m", "p", "o", "r", "t">> -> Tok("Import")
      [] OTHER -> TokText("Iden", s)

ScanKeyword(lx, c) ==
    LET lpos == lx.pos
        r    == ScanKeywordLoop(lx, <<c>>)
    IN LexOk(r.lx, <<TokenContext(Keyword(r.tokstr), lpos, r.lx.pos)>>)

RECURSIVE ScanSpecialLoop(_, _)
ScanSpecialLoop(lx, tok) ==
    LET p == LexPeek(lx) IN
    IF p = <<>> \/ IsWhitespace(p[1]) \/ IsAlphanumeric(p[1]) \/ IsControl(p[1])
    THEN [lx |-> lx, tok |-> tok]
    ELSE ScanSpecialLoop(LexConsume(lx), Append(tok, p[1]))

\* The operator table of scan_special; kind "None" for a text it does not hold.
Special(s) ==
    CASE s = <<"*">> -> TokOp("Operator", "Multiply")
      [] s = <<"*", "*">> -> TokOp("Operator", "Exp")
      [] s = <<"*", "=">> -> TokOp("AssignOp", "Multiply")
      [] s = <<"*", "*", "=">> -> TokOp("AssignOp", "Exp")
      [] s = <<"-">> -> TokOp("Operator", "Minus")
      [] s = <<"-", "=">> -> TokOp("AssignOp", "Minus")
      [] s = <<"+">> -> TokOp("Operator", "Plus")
      [] s = <<"+", "=">> -> TokOp("AssignOp", "Plus")
      [] s = <<"/">> -> TokOp("Operator", "Divide")
      [] s = <<"/", "=">> -> TokOp("AssignOp", "Divide")
      [] s = <<":", "=">> -> Tok("Declare")
      [] s = <<"=">> -> Tok("Assign")
      [] s = <<"=", "=">> -> TokOp("Operator", "Eq")
      [] s = <<"!", "=">> -> TokOp("Operator", "Neq")
      [] s = <<"<", "=">> -> TokOp("Operator", "Leq")
      [] s = <<"<">> -> TokOp("Operator", "Lt")
      [] s = <<">", "=">> -> TokOp("Operator", "Geq")
      [] s = <<">">> -> TokOp("Operator", "Gt")
      [] s = <<"&", "&">> -> TokOp("Operator", "And")
      [] s = <<"|", "|">> -> TokOp("Operator", "Or")
      [] s = <<"-", ">">> -> Tok("Arrow")
      [] OTHER -> Tok("None")

ScanSpecial(lx, c) ==
    LET lpos == lx.pos
        r    == ScanSpecialLoop(lx, <<c>>)
        tok  == Special(r.tok)
    IN IF tok.kind = "None"
       THEN LexFail(r.lx, LexError("Invalid token", r.tok, <<>>))
       ELSE LexOk(r.lx, <<TokenContext(tok, lpos, r.lx.pos)>>)

(***************************************************************************)
(* Lexer: read_token.                                                      *)
(***************************************************************************)
ReadToken(lx0) ==
    LET lx1 == SkipSpaces(lx0)
        r   == LexRead(lx1)
    IN IF r.c = <<>> THEN LexOk(r.lx, <<>>)
       ELSE LET c    == r.c[1]
                ctrl == MatchControl(r.lx, c, r.lx.pos)
            IN IF ctrl # <<>> THEN LexOk(r.lx, ctrl)
               ELSE IF c = "'" THEN ScanChar(r.lx)
               ELSE IF c = "\"" THEN ScanString(r.lx)
               ELSE IF IsDigit(c) THEN ScanNumber(r.lx, c)
               ELSE IF IsAlphanumeric(c) THEN ScanKeyword(r.lx, c)
               ELSE ScanSpecial(r.lx, c)

\* read_tokens: the tokens up to the end of the input, or the first error.
RECURSIVE ReadTokensLoop(_, _)
ReadTokensLoop(lx, toks) ==
    LET r == ReadToken(lx) IN
    IF r.err # <<>> THEN [err |-> r.err, toks |-> <<>>]
    ELSE IF r.tok = <<>> THEN [err |-> <<>>, toks |-> toks]
    ELSE ReadTokensLoop(r.lx, Append(toks, r.tok[1]))

ReadTokens(lx) == ReadTokensLoop(lx, <<>>)

(***************************************************************************)
(* Source texts.                                                           *)
(***************************************************************************)
RECURSIVE SeqsUpTo(_, _)
SeqsUpTo(S, n) ==
    IF n = 0 THEN {<<>>}
    ELSE LET shorter == SeqsUpTo(S, n - 1) IN
         shorter \cup {Append(s, x) : s \in {t \in shorter : Len(t) = n - 1}, x \in S}

LexAlphabet == {"a", "1", ".", " ", "\n", "\"", "\\", "="}

Indent == <<" ", " ", " ", " ", " ", " ", " ", " ", " ", " ", " ", " ">>

\* The program of test_lex_loop.
LoopFixture ==
    <<"\n">>
    \o Indent \o <<"x", " ", ":", "=", " ", "0", ";", "\n">>
    \o Indent \o <<"w", "h", "i", "l", "e", " ", "i", " ", "<", " ", "n", " ", "{", "\n">>
    \o Indent \o <<" ", " ", " ", " ", "x", " ", "=", " ", "x", " ", "+", " ", "2", ";", "\n">>
    \o Indent \o <<"}", "\n">>
    \o <<" ", " ", " ", " ", " ", " ", " ", " ">>

\* The tokens test_lex_loop expects.
LoopExpected ==
    <<TokText("Iden", <<"x">>), Tok("Declare"), TokInt(0), Tok("SemiColon"),
      Tok("While"), TokText("Iden", <<"i">>), TokOp("Operator", "Lt"),
      TokText("Iden", <<"n">>), Tok("LBrace"),
      TokText("Iden", <<"x">>), Tok("Assign"), TokText("Iden", <<"x">>),
      TokOp("Operator", "Plus"), TokInt(2), Tok("SemiColon"), Tok("RBrace")>>

\* The source texts of at most n characters, and the fixture.
LexInputs(n) == SeqsUpTo(LexAlphabet, n) \cup {LoopFixture}

(***************************************************************************)
(* The tokenizer as a state machine: a Lexer over a source text, and       *)
(* read_tokens calling read_token until it returns None or an error.       *)
(***************************************************************************)
LexIdle ==
    /\ lexInput = <<>>
    /\ lexer = NewLexer(<<>>)
    /\ lexTokens = <<>>
    /\ lexStatus = "idle"
    /\ lexErr = <<>>

LexInit ==
    /\ lexInput \in LexInputs(MaxLen)
    /\ lexer = NewLexer(lexInput)
    /\ lexTokens = <<>>
    /\ lexStatus = "ready"
    /\ lexErr = <<>>

\* One turn of the loop of read_tokens: read_token, and the token pushed.
LexReadToken ==
    /\ lexStatus = "ready"
    /\ LET r == ReadToken(lexer) IN
       /\ lexer' = r.lx
       /\ lexErr' = r.err
       /\ lexTokens' = IF r.tok # <<>> THEN Append(lexTokens, r.tok[1]) ELSE lexTokens
       /\ lexStatus' = IF r.err # <<>> THEN "err"
                       ELSE IF r.tok = <<>> THEN "done"
                       ELSE "ready"
    /\ UNCHANGED <<lexInput, evVars, envVars, prsVars>>

(***************************************************************************)
(* Constants (runtime values).  An Int is an i32; the operands of the      *)
(* model are small, so no sum or product of the model leaves i32.  A Float *)
(* is kept as an exact signed fraction, an infinity or NaN: the rounding   *)
(* of f64 is not modelled.                                                 *)
(***************************************************************************)
Float(cls, sgn, num, den) == [cls |-> cls, sgn |-> sgn, num |-> num, den |-> den]

FZero == Float("fin", 1, 0, 1)

FNaN == Float("nan", 1, 0, 1)

FInf(sgn) == Float("inf", sgn, 0, 1)

Const(tag, i, f, b, s) == [tag |-> tag, int |-> i, flt |-> f, bool |-> b, str |-> s]

IntC(n) == Const("Int", n, FZero, FALSE, <<>>)

FloatC(f) == Const("Float", 0, f, FALSE, <<>>)

BoolC(b) == Const("Bool", 0, FZero, b, <<>>)

StringC(s) == Const("String", 0, FZero, FALSE, s)

CharC(c) == Const("Char", 0, FZero, FALSE, <<c>>)

\* The order of the variants in the declaration of Constant, which the
\* derived PartialOrd compares first.
Discriminant(c) ==
    CASE c.tag = "Int" -> 0
      [] c.tag = "Float" -> 1
      [] c.tag = "Bool" -> 2
      [] c.tag = "String" -> 3
      [] c.tag = "Char" -> 4

RECURSIVE Gcd(_, _)
Gcd(a, b) == IF b = 0 THEN a ELSE Gcd(b, a % b)

\* The finite Float of the signed fraction n / d (d > 0); zsgn is the sign
\* of the result when it is zero.
Fraction(n, d, zsgn) ==
    IF n = 0 THEN Float("fin", zsgn, 0, 1)
    ELSE LET m == IF n < 0 THEN 0 - n ELSE n
             g == Gcd(m, d)
         IN Float("fin", IF n < 0 THEN -1 ELSE 1, m \div g, d \div g)

FNeg(a) == IF a.cls = "nan" THEN a ELSE [a EXCEPT !.sgn = 0 - a.sgn]

FAdd(a, b) ==
    IF a.cls = "nan" \/ b.cls = "nan" THEN FNaN
    ELSE IF a.cls = "inf"
    THEN IF b.cls = "inf" /\ b.sgn # a.sgn THEN FNaN ELSE a
    ELSE IF b.cls = "inf" THEN b
    ELSE Fraction(a.sgn * a.num * b.den + b.sgn * b.num * a.den, a.den * b.den,
                  IF a.sgn = -1 /\ b.sgn = -1 THEN -1 ELSE 1)

FSub(a, b) == FAdd(a, FNeg(b))

FIsZero(a) == a.cls = "fin" /\ a.num = 0

FMul(a, b) ==
    IF a.cls = "nan" \/ b.cls = "nan" THEN FNaN
    ELSE IF a.cls = "inf" \/ b.cls = "inf"
    THEN IF FIsZero(a) \/ FIsZero(b) THEN FNaN ELSE FInf(a.sgn * b.sgn)
    ELSE Fraction(a.sgn * b.sgn * a.num * b.num, a.den * b.den, a.sgn * b.sgn)

FDiv(a, b) ==
    IF a.cls = "nan" \/ b.cls = "nan" THEN FNaN
    ELSE IF a.cls = "inf"
    THEN IF b.cls = "inf" THEN FNaN ELSE FInf(a.sgn * b.sgn)
    ELSE IF b.cls = "inf" THEN Float("fin", a.sgn * b.sgn, 0, 1)
    ELSE IF FIsZero(b)
    THEN IF FIsZero(a) THEN FNaN ELSE FInf(a.sgn * b.sgn)
    ELSE Fraction(a.sgn * b.sgn * a.num * b.den, a.den * b.num, a.sgn * b.sgn)

\* partial_cmp: "Less", "Equal", "Greater", or "None" when unordered.
IntCmp(a, b) == IF a < b THEN "Less" ELSE IF a > b THEN "Greater" ELSE "Equal"

FCmp(a, b) ==
    IF a.cls = "nan" \/ b.cls = "nan" THEN "None"
    ELSE IF a.cls = "inf" /\ b.cls = "inf" THEN IntCmp(a.sgn, b.sgn)
    ELSE IF a.cls = "inf" THEN (IF a.sgn = 1 THEN "Greater" ELSE "Less")
    ELSE IF b.cls = "inf" THEN (IF b.sgn = 1 THEN "Less" ELSE "Greater")
    ELSE IntCmp(a.sgn * a.num * b.den, b.sgn * b.num * a.den)

\* The order of the characters: digits, then capitals, then small letters.
CharOrder ==
    Digits \o
    <<"A", "B", "C", "D", "E", "F", "G", "H", "I", "J", "K", "L", "M",
      "N", "O", "P", "Q", "R", "S", "T", "U", "V", "W", "X", "Y", "Z",
      "a", "b", "c", "d", "e", "f", "g", "h", "i", "j", "k", "l", "m",
      "n", "o", "p", "q", "r", "s", "t", "u", "v", "w", "x", "y", "z">>

CharCode(c) == CHOOSE i \in 1..Len(CharOrder) : CharOrder[i] = c

RECURSIVE StrCmp(_, _)
StrCmp(a, b) ==
    IF a = <<>> THEN (IF b = <<>> THEN "Equal" ELSE "Less")
    ELSE IF b = <<>> THEN "Greater"
    ELSE LET c == IntCmp(CharCode(Head(a)), CharCode(Head(b))) IN
         IF c # "Equal" THEN c ELSE StrCmp(Tail(a), Tail(b))

\* #[derive(PartialOrd)] on Constant: the variants first, then the payloads.
ConstCmp(a, b) ==
    IF a.tag # b.tag THEN IntCmp(Discriminant(a), Discriminant(b))
    ELSE CASE a.tag = "Int" -> IntCmp(a.int, b.int)
           [] a.tag = "Float" -> FCmp(a.flt, b.flt)
           [] a.tag = "Bool" -> IntCmp(IF a.bool THEN 1 ELSE 0, IF b.bool THEN 1 ELSE 0)
           [] a.tag = "String" -> StrCmp(a.str, b.str)
           [] a.tag = "Char" -> StrCmp(a.str, b.str)

\* #[derive(PartialEq)] on Constant.
ConstEq(a, b) ==
    /\ a.tag = b.tag
    /\ IF a.tag = "Float" THEN FCmp(a.flt, b.flt) = "Equal" ELSE a = b

(***************************************************************************)
(* Expressions and the evaluator.                                          *)
(***************************************************************************)
\* An expression: a Constant holds c, a Variable holds iden, BinArith and
\* BinBool hold op and kids <<lhs, rhs>>, Unary holds op and kids <<expr>>,
\* CallFunc holds iden and kids (its args).
Expr(tag, c, iden, op, kids) ==
    [tag |-> tag, c |-> c, iden |-> iden, op |-> op, kids |-> kids]

ConstantE(c) == Expr("Constant", c, "", "None", <<>>)

VariableE(v) == Expr("Variable", IntC(0), v, "None", <<>>)

BinArithE(op, l, r) == Expr("BinArith", IntC(0), "", op, <<l, r>>)

BinBoolE(op, l, r) == Expr("BinBool", IntC(0), "", op, <<l, r>>)

UnaryE(op, e) == Expr("Unary", IntC(0), "", op, <<e>>)

CallFuncE(f, args) == Expr("CallFunc", IntC(0), f, "None", args)

\* What an evaluation does: it returns Ok(value) or Err(RunErr), or it
\* panics, which ends the process.
EvOk(c) == [tag |-> "Ok", val |-> c, kind |-> "None", msg |-> ""]

EvErr(kind, msg) == [tag |-> "Err", val |-> IntC(0), kind |-> kind, msg |-> msg]

EvPanic(msg) == [tag |-> "Panic", val |-> IntC(0), kind |-> "None", msg |-> msg]

\* RunErr::undefined
Undefined(iden) == EvErr("Undefined", iden)

\* i32 division, which truncates toward zero (the divisor is not 0).
TruncDiv(a, b) ==
    LET m == IF a < 0 THEN 0 - a ELSE a
        n == IF b < 0 THEN 0 - b ELSE b
        q == m \div n
    IN IF (a < 0) # (b < 0) THEN 0 - q ELSE q

EvalAdd(lhs, rhs) ==
    IF lhs.tag = "Int" /\ rhs.tag = "Int" THEN EvOk(IntC(lhs.int + rhs.int))
    ELSE IF lhs.tag = "Float" /\ rhs.tag = "Float" THEN EvOk(FloatC(FAdd(lhs.flt, rhs.flt)))
    ELSE IF lhs.tag = "String" /\ rhs.tag = "String" THEN EvOk(StringC(lhs.str \o rhs.str))
    ELSE EvErr("Type", "Add operator must be applied to 2 ints, floats, or strings")

\* for _ in 0..rhs { s_new.push_str(lhs) }
RECURSIVE RepeatStr(_, _)
RepeatStr(s, n) == IF n <= 0 THEN <<>> ELSE RepeatStr(s, n - 1) \o s

\* eval_multiply with String * Int taken in either order.
EvalMultiply_EitherOrder(lhs, rhs) ==
    IF lhs.tag = "Int" /\ rhs.tag = "Int" THEN EvOk(IntC(lhs.int * rhs.int))
    ELSE IF lhs.tag = "Float" /\ rhs.tag = "Float" THEN EvOk(FloatC(FMul(lhs.flt, rhs.flt)))
    ELSE IF lhs.tag = "String" /\ rhs.tag = "Int" THEN EvOk(StringC(RepeatStr(lhs.str, rhs.int)))
    ELSE IF lhs.tag = "Int" /\ rhs.tag = "String" THEN EvOk(StringC(RepeatStr(rhs.str, lhs.int)))
    ELSE EvErr("Type", "Subtract operator must be applied to 2 ints, 2 floats, or between a string and an int")

\* eval_multiply with the string repeated |rhs| times.
EvalMultiply_Magnitude(lhs, rhs) ==
    IF lhs.tag = "Int" /\ rhs.tag = "Int" THEN EvOk(IntC(lhs.int * rhs.int))
    ELSE IF lhs.tag = "Float" /\ rhs.tag = "Float" THEN EvOk(FloatC(FMul(lhs.flt, rhs.flt)))
    ELSE IF lhs.tag = "String" /\ rhs.tag = "Int"
    THEN EvOk(StringC(RepeatStr(lhs.str, IF rhs.int < 0 THEN 0 - rhs.int ELSE rhs.int)))
    ELSE EvErr("Type", "Subtract operator must be applied to 2 ints, 2 floats, or between a string and an int")

EvalMultiply(lhs, rhs) ==
    IF lhs.tag = "Int" /\ rhs.tag = "Int" THEN EvOk(IntC(lhs.int * rhs.int))
    ELSE IF lhs.tag = "Float" /\ rhs.tag = "Float" THEN EvOk(FloatC(FMul(lhs.flt, rhs.flt)))
    ELSE IF lhs.tag = "String" /\ rhs.tag = "Int" THEN EvOk(StringC(RepeatStr(lhs.str, rhs.int)))
    ELSE EvErr("Type", "Subtract operator must be applied to 2 ints, 2 floats, or between a string and an int")

EvalSubtract(lhs, rhs) ==
    IF lhs.tag = "Int" /\ rhs.tag = "Int" THEN EvOk(IntC(lhs.int - rhs.int))
    ELSE IF lhs.tag = "Float" /\ rhs.tag = "Float" THEN EvOk(FloatC(FSub(lhs.flt, rhs.flt)))
    ELSE EvErr("Type", "Subtract operator must be applied to 2 ints or 2 floats")

\* lhs / rhs on i32 panics when rhs is 0.
EvalDivide(lhs, rhs) ==
    IF lhs.tag = "Int" /\ rhs.tag = "Int"
    THEN IF rhs.int = 0 THEN EvPanic("attempt to divide by zero")
         ELSE EvOk(IntC(TruncDiv(lhs.int, rhs.int)))
    ELSE IF lhs.tag = "Float" /\ rhs.tag = "Float" THEN EvOk(FloatC(FDiv(lhs.flt, rhs.flt)))
    ELSE EvErr("Type", "Divide operator must be applied to 2 ints or 2 floats")

RECURSIVE EvalExpr(_)

\* The ? operator hands an Err to the caller; a panic unwinds through it.
EvalArithExpr(expr) ==
    LET lhs == EvalExpr(expr.kids[1]) IN
    IF lhs.tag # "Ok" THEN lhs
    ELSE LET rhs == EvalExpr(expr.kids[2]) IN
         IF rhs.tag # "Ok" THEN rhs
         ELSE CASE expr.op = "Add" -> EvalAdd(lhs.val, rhs.val)
                [] expr.op = "Multiply" -> EvalMultiply(lhs.val, rhs.val)
                [] expr.op = "Subtract" -> EvalSubtract(lhs.val, rhs.val)
                [] expr.op = "Divide" -> EvalDivide(lhs.val, rhs.val)

\* The operators of the derived PartialEq and PartialOrd.  The bool of an
\* Ok is carried as a Bool constant.
EvalBoolExpr(expr) ==
    LET lhs == EvalExpr(expr.kids[1]) IN
    IF lhs.tag # "Ok" THEN lhs
    ELSE LET rhs == EvalExpr(expr.kids[2]) IN
         IF rhs.tag # "Ok" THEN rhs
         ELSE LET cmp == ConstCmp(lhs.val, rhs.val) IN
              CASE expr.op = "Eq" -> EvOk(BoolC(ConstEq(lhs.val, rhs.val)))
                [] expr.op = "Neq" -> EvOk(BoolC(~ConstEq(lhs.val, rhs.val)))
                [] expr.op = "Leq" -> EvOk(BoolC(cmp \in {"Less", "Equal"}))
                [] expr.op = "Geq" -> EvOk(BoolC(cmp \in {"Greater", "Equal"}))
                [] expr.op = "Lt" -> EvOk(BoolC(cmp = "Less"))
                [] expr.op = "Gt" -> EvOk(BoolC(cmp = "Greater"))

EvalUnaryExpr(op, expr) ==
    LET r == EvalExpr(expr) IN
    IF r.tag # "Ok" THEN r
    ELSE IF op = "Not"
    THEN IF r.val.tag = "Bool" THEN EvOk(BoolC(r.val.bool))
         ELSE EvErr("Type", "Not operator must be applied to a bool")
    ELSE IF r.val.tag = "Int" THEN EvOk(IntC(0 - r.val.int))
    ELSE IF r.val.tag = "Float" THEN EvOk(FloatC(FNeg(r.val.flt)))
    ELSE EvErr("Type", "Unary minus must be applied to an int or a float")

\* eval_func from its i-th argument on: the first argument that does not
\* evaluate to Ok ends it, and after the last argument it panics.
RECURSIVE EvalFuncLoop(_, _)
EvalFuncLoop(args, i) ==
    IF i > Len(args) THEN EvPanic("Function call not yet implemented")
    ELSE LET r == EvalExpr(args[i]) IN
         IF r.tag # "Ok" THEN r ELSE EvalFuncLoop(args, i + 1)

EvalFunc(func) == EvalFuncLoop(func.kids, 1)

EvalExpr(expr) ==
    CASE expr.tag = "Constant" -> EvOk(expr.c)
      [] expr.tag = "Variable" -> EvPanic("Variable access not yet implemented")
      [] expr.tag = "BinArith" -> EvalArithExpr(expr)
      [] expr.tag = "BinBool" ->
            LET b == EvalBoolExpr(expr) IN
            IF b.tag = "Ok" THEN EvOk(BoolC(b.val.bool)) ELSE b
      [] expr.tag = "Unary" -> EvalUnaryExpr(expr.op, expr.kids[1])
      [] expr.tag = "CallFunc" -> EvalFunc(expr)

(***************************************************************************)
(* The expressions handed to the evaluator: every expression over the      *)
(* leaves with one operator, and those with one more operator around them. *)
(***************************************************************************)
ArithOps == {"Add", "Multiply", "Subtract", "Divide"}

BoolOps == {"Eq", "Neq", "Leq", "Geq", "Lt", "Gt"}

Unops == {"Not", "Minus"}

OneAndHalf == Float("fin", 1, 3, 2)

EvConstants ==
    {IntC(n) : n \in -1..MaxInt}
    \cup {FloatC(FZero), FloatC(OneAndHalf)}
    \cup {BoolC(TRUE), BoolC(FALSE)}
    \cup {StringC(<<>>), StringC(<<"a", "b">>)}
    \cup {CharC("a")}

Leaves == {ConstantE(c) : c \in EvConstants} \cup {VariableE("x")}

Wrap(S, T) ==
    {BinArithE(op, l, r) : op \in ArithOps, l \in S, r \in T}
    \cup {BinBoolE(op, l, r) : op \in BoolOps, l \in T, r \in S}
    \cup {UnaryE(op, e) : op \in Unops, e \in S}

Calls(S) == {CallFuncE("f", args) : args \in SeqsUpTo(S, MaxArgs)}

Depth1(S) == Wrap(S, S) \cup Calls(S)

\* The expressions with one more operator around e.
Around(e) ==
    Wrap({e}, {ConstantE(IntC(1))}) \cup {CallFuncE("f", <<ConstantE(IntC(1)), e>>)}

(***************************************************************************)
(* The evaluator as a state machine: an expression, and eval_expr on it.   *)
(***************************************************************************)
EvIdle ==
    /\ evExpr = ConstantE(IntC(0))
    /\ evResult = <<>>

EvInit ==
    /\ \/ evExpr \in Leaves
       \/ evExpr \in Depth1(Leaves)
       \/ \E e \in Depth1(Leaves) : evExpr \in Around(e)
    /\ evResult = <<>>

Eval ==
    /\ evResult = <<>>
    /\ evResult' = <<EvalExpr(evExpr)>>
    /\ UNCHANGED <<evExpr, lexVars, envVars, prsVars>>

(***************************************************************************)
(* Environment.  A StackFrame is a sequence of pairs, the top frame is the *)
(* last one.  Ok(()) is carried as Ok of Int(0).                           *)
(***************************************************************************)
Pair(iden, constant) == [iden |-> iden, val |-> constant]

EnvPushed(fs) == Append(fs, <<>>)

EnvPopped(fs) == IF fs = <<>> THEN fs ELSE SubSeq(fs, 1, Len(fs) - 1)

\* top: the frames once top() has pushed a frame onto an empty stack; the
\* frame it returns is the last of them.
EnvTop(fs) == IF Len(fs) = 0 THEN EnvPushed(fs) ELSE fs

\* The first pair of a frame that holds iden, 0 when there is none.
RECURSIVE Find(_, _, _)
Find(frame, iden, i) ==
    IF i > Len(frame) THEN 0
    ELSE IF frame[i].iden = iden THEN i
    ELSE Find(frame, iden, i + 1)

EnvWritten(fs, iden, constant) ==
    LET gs == EnvTop(fs)
        n  == Len(gs)
        i  == Find(gs[n], iden, 1)
    IN IF i = 0
       THEN [frames |-> gs, res |-> Undefined(iden)]
       ELSE [frames |-> [gs EXCEPT ![n][i].val = constant], res |-> EvOk(IntC(0))]

\* read that looks through every frame, the top frame first.
EnvReadOf_AllFrames(fs, iden) ==
    LET gs == EnvTop(fs)
        n  == Len(gs)
        hits == {k \in 1..n : Find(gs[k], iden, 1) # 0}
    IN IF hits = {}
       THEN [frames |-> gs, res |-> Undefined(iden)]
       ELSE LET k == CHOOSE k \in hits : \A j \in hits : j <= k IN
            [frames |-> gs, res |-> EvOk(gs[k][Find(gs[k], iden, 1)].val)]

EnvReadOf(fs, iden) ==
    LET gs == EnvTop(fs)
        n  == Len(gs)
        i  == Find(gs[n], iden, 1)
    IN IF i = 0
       THEN [frames |-> gs, res |-> Undefined(iden)]
       ELSE [frames |-> gs, res |-> EvOk(gs[n][i].val)]

Idens == {"x", "y"}

EnvValues == {IntC(1), IntC(2)}

InitFrames ==
    SeqsUpTo(SeqsUpTo({Pair(i, IntC(1)) : i \in Idens}, MaxBindings), MaxFrames)

EnvOp(name, iden) == [name |-> name, iden |-> iden]

EnvIdle ==
    /\ frames = <<>>
    /\ envOp = EnvOp("idle", "")
    /\ envResult = <<>>

EnvInit ==
    /\ frames \in InitFrames
    /\ envOp = EnvOp("new", "")
    /\ envResult = <<>>

EnvPush ==
    /\ Len(frames) <= MaxFrames
    /\ frames' = EnvPushed(frames)
    /\ envOp' = EnvOp("push", "")
    /\ envResult' = <<>>
    /\ UNCHANGED <<lexVars, evVars, prsVars>>

EnvPop ==
    /\ frames' = EnvPopped(frames)
    /\ envOp' = EnvOp("pop", "")
    /\ envResult' = <<>>
    /\ UNCHANGED <<lexVars, evVars, prsVars>>

EnvWrite ==
    \E iden \in Idens, constant \in EnvValues :
        LET w == EnvWritten(frames, iden, constant) IN
        /\ frames' = w.frames
        /\ envOp' = EnvOp("write", iden)
        /\ envResult' = <<w.res>>
        /\ UNCHANGED <<lexVars, evVars, prsVars>>

EnvRead ==
    \E iden \in Idens :
        LET r == EnvReadOf(frames, iden) IN
        /\ frames' = r.frames
        /\ envOp' = EnvOp("read", iden)
        /\ envResult' = <<r.res>>
        /\ UNCHANGED <<lexVars, evVars, prsVars>>

\* eval_expr on Expr::Variable(iden), by the owner of the environment.
EnvEvalVariable ==
    \E iden \in Idens :
        /\ envOp' = EnvOp("eval", iden)
        /\ envResult' = <<EvalExpr(VariableE(iden))>>
        /\ UNCHANGED <<frames, lexVars, evVars, prsVars>>

(***************************************************************************)
(* Parser.  Every parse function takes the tokens left and returns the     *)
(* tokens left after it, with a value or an error.                         *)
(***************************************************************************)
\* A syntax error: the message and the token it names, if it names one.
PrsError(msg, got) == [msg |-> msg, got |-> got]

PrsOk(toks, val) == [toks |-> toks, err |-> <<>>, val |-> val]

PrsFail(toks, e, val) == [toks |-> toks, err |-> <<e>>, val |-> val]

TypeNode(tag, iden, args, ret) == [tag |-> tag, iden |-> iden, args |-> args, ret |-> ret]

TypeIden(iden) == TypeNode("Iden", iden, <<>>, <<>>)

TypeArray(t) == TypeNode("Array", <<>>, <<t>>, <<>>)

TypeFn(args, ret) == TypeNode("Fn", <<>>, args, ret)

Node(tag, iden, pairs, ret, type_node, body) ==
    [tag |-> tag, iden |-> iden, pairs |-> pairs, ret |-> ret,
     type_node |-> type_node, body |-> body]

NoNode == Node("None", <<>>, <<>>, <<>>, <<>>, <<>>)

PeekToken(toks) == IF toks = <<>> THEN <<>> ELSE <<Head(toks)>>

ConsumeToken(toks) == IF toks = <<>> THEN toks ELSE Tail(toks)

\* advance_token: val is the token popped.
AdvanceToken(toks) ==
    IF toks = <<>>
    THEN PrsFail(toks, PrsError("expected token, but reached end of the stream", <<>>),
                 TokenContext(Tok("None"), Position(0, 0), Position(0, 0)))
    ELSE PrsOk(Tail(toks), Head(toks))

ExpectToken(toks, expected) ==
    LET a == AdvanceToken(toks) IN
    IF a.err # <<>> THEN a
    ELSE IF a.val.kind = expected THEN a
    ELSE PrsFail(a.toks, PrsError("token expected", <<a.val>>), a.val)

RECURSIVE ParseType(_)
RECURSIVE ParseFnTypeLoop(_, _)

\* parse_ret_type: val is Option<TypeNode>.
ParseRetType(toks) ==
    LET p == PeekToken(toks) IN
    IF p # <<>> /\ p[1].kind = Tok("Arrow")
    THEN LET t == ParseType(ConsumeToken(toks)) IN
         IF t.err # <<>> THEN PrsFail(t.toks, t.err[1], <<>>)
         ELSE PrsOk(t.toks, <<t.val>>)
    ELSE PrsOk(toks, <<>>)

\* The loop of parse_fn_type, then its return type.
ParseFnTypeLoop(toks, args) ==
    LET t == ParseType(toks) IN
    IF t.err # <<>> THEN t
    ELSE LET a == AdvanceToken(t.toks) IN
         IF a.err # <<>> THEN PrsFail(a.toks, a.err[1], t.val)
         ELSE IF a.val.kind = Tok("Comma")
         THEN ParseFnTypeLoop(a.toks, Append(args, t.val))
         ELSE IF a.val.kind = Tok("RParen")
         THEN LET r == ParseRetType(a.toks) IN
              IF r.err # <<>> THEN PrsFail(r.toks, r.err[1], t.val)
              ELSE PrsOk(r.toks, TypeFn(Append(args, t.val), r.val))
         ELSE PrsFail(a.toks,
                      PrsError("expected ',' or ')' after argument type in fn type", <<a.val>>),
                      t.val)

ParseFnType(toks) == ParseFnTypeLoop(toks, <<>>)

ParseType(toks) ==
    LET a == AdvanceToken(toks) IN
    IF a.err # <<>> THEN PrsFail(a.toks, a.err[1], TypeIden(<<>>))
    ELSE IF a.val.kind.kind = "Iden" THEN PrsOk(a.toks, TypeIden(a.val.kind.text))
    ELSE IF a.val.kind = Tok("Fn")
    THEN LET b == AdvanceToken(a.toks) IN
         IF b.err # <<>> THEN PrsFail(b.toks, b.err[1], TypeIden(<<>>))
         ELSE IF b.val.kind = Tok("LParen") THEN ParseFnType(b.toks)
         ELSE PrsFail(b.toks, PrsError("expected ')' after <fn>", <<b.val>>), TypeIden(<<>>))
    ELSE IF a.val.kind = Tok("LBracket")
    THEN LET b == AdvanceToken(a.toks) IN
         IF b.err # <<>> THEN PrsFail(b.toks, b.err[1], TypeIden(<<>>))
         ELSE IF b.val.kind = Tok("RBracket")
         THEN LET t == ParseType(b.toks) IN
              IF t.err # <<>> THEN t ELSE PrsOk(t.toks, TypeArray(t.val))
         ELSE PrsFail(b.toks, PrsError("expected '[]' before an array type", <<b.val>>),
                      TypeIden(<<>>))
    ELSE PrsFail(a.toks,
                 PrsError("expected <iden>, <fn>, or <array> as type definition", <<a.val>>),
                 TypeIden(<<>>))

TypePair(name, type_node) == [name |-> name, type |-> type_node]

\* The loop of parse_type_pairs; val is the pairs.
RECURSIVE ParseTypePairsLoop(_, _, _)
ParseTypePairsLoop(toks, term, args) ==
    LET a == AdvanceToken(toks) IN
    IF a.err # <<>> THEN PrsFail(a.toks, a.err[1], <<>>)
    ELSE IF a.val.kind.kind = "Iden"
    THEN LET AfterType(t) ==
                 IF t.err # <<>> THEN PrsFail(t.toks, t.err[1], <<>>)
                 ELSE LET args1 == Append(args, TypePair(a.val.kind.text, t.val))
                          b     == AdvanceToken(t.toks)
                      IN IF b.err # <<>> THEN PrsFail(b.toks, b.err[1], <<>>)
                         ELSE IF b.val.kind = Tok("Comma")
                         THEN ParseTypePairsLoop(b.toks, term, args1)
                         ELSE IF b.val.kind = term THEN PrsOk(b.toks, args1)
                         ELSE PrsFail(b.toks,
                                      PrsError("expected terminator or ',' in function definition",
                                               <<b.val>>),
                                      <<>>)
         IN AfterType(ParseType(a.toks))
    ELSE IF a.val.kind = term THEN PrsOk(a.toks, args)
    ELSE PrsFail(a.toks,
                 PrsError("expected terminator or <iden> in function definition", <<a.val>>),
                 <<>>)

\* parse_type_pairs with each pair put in front of the pairs before it.
ParseTypePairs_Reversed(toks, term) ==
    LET r == ParseTypePairsLoop(toks, term, <<>>) IN
    [r EXCEPT !.val = [i \in 1..Len(r.val) |-> r.val[Len(r.val) + 1 - i]]]

ParseTypePairs(toks, term) == ParseTypePairsLoop(toks, term, <<>>)

ParseImport(toks) ==
    LET a == AdvanceToken(toks) IN
    IF a.err # <<>> THEN PrsFail(a.toks, a.err[1], NoNode)
    ELSE IF a.val.kind.kind = "Iden"
    THEN PrsOk(a.toks, Node("Import", a.val.kind.text, <<>>, <<>>, <<>>, <<>>))
    ELSE PrsFail(a.toks, PrsError("expected <iden> in import", <<a.val>>), NoNode)

\* parse_def_func: the body of the node is the empty vec.
ParseDefFunc(toks) ==
    LET a == AdvanceToken(toks) IN
    IF a.err # <<>> THEN PrsFail(a.toks, a.err[1], NoNode)
    ELSE IF a.val.kind.kind # "Iden"
    THEN PrsFail(a.toks, PrsError("expected <iden> in function definition", <<a.val>>), NoNode)
    ELSE LET e == ExpectToken(a.toks, Tok("LParen")) IN
         IF e.err # <<>> THEN PrsFail(e.toks, e.err[1], NoNode)
         ELSE LET AfterRet(args, ret) ==
                      IF ret.err # <<>> THEN PrsFail(ret.toks, ret.err[1], NoNode)
                      ELSE PrsOk(ret.toks,
                                 Node("DefFunc", a.val.kind.text, args.val, ret.val, <<>>, <<>>))
                  AfterArgs(args) ==
                      IF args.err # <<>> THEN PrsFail(args.toks, args.err[1], NoNode)
                      ELSE AfterRet(args, ParseRetType(args.toks))
              IN AfterArgs(ParseTypePairs(e.toks, Tok("RParen")))

ParseDefType(toks) ==
    LET a == AdvanceToken(toks) IN
    IF a.err # <<>> THEN PrsFail(a.toks, a.err[1], NoNode)
    ELSE IF a.val.kind.kind # "Iden"
    THEN PrsFail(a.toks,
                 PrsError("expected ',' or ')' after argument type in fn type", <<a.val>>),
                 NoNode)
    ELSE LET t == ParseType(a.toks) IN
         IF t.err # <<>> THEN PrsFail(t.toks, t.err[1], NoNode)
         ELSE PrsOk(t.toks, Node("DefTypeAlias", a.val.kind.text, <<>>, <<>>, <<t.val>>, <<>>))

ParseDefStruct(toks) ==
    LET a == AdvanceToken(toks) IN
    IF a.err # <<>> THEN PrsFail(a.toks, a.err[1], NoNode)
    ELSE IF a.val.kind.kind # "Iden"
    THEN PrsFail(a.toks, PrsError("expected <iden> after a struct definition", <<a.val>>), NoNode)
    ELSE LET e == ExpectToken(a.toks, Tok("LBrace")) IN
         IF e.err # <<>> THEN PrsFail(e.toks, e.err[1], NoNode)
         ELSE LET AfterFields(fields) ==
                      IF fields.err # <<>> THEN PrsFail(fields.toks, fields.err[1], NoNode)
                      ELSE PrsOk(fields.toks,
                                 Node("DefStruct", a.val.kind.text, fields.val, <<>>, <<>>, <<>>))
              IN AfterFields(ParseTypePairs(e.toks, Tok("RBrace")))

\* The loop of parse_program; val is the nodes, and no nodes with an error.
RECURSIVE ParseProgramLoop(_, _)
\* parse_program that returns, with an error, the nodes built before it.
ParseProgramLoop_KeepsNodes(toks, nodes) ==
    IF toks = <<>> THEN PrsOk(toks, nodes)
    ELSE LET tok  == Head(toks)
             rest == Tail(toks)
             Push(n) == IF n.err # <<>> THEN PrsFail(n.toks, n.err[1], nodes)
                        ELSE ParseProgramLoop(n.toks, Append(nodes, n.val))
         IN Push(CASE tok.kind = Tok("Import") -> ParseImport(rest)
                   [] tok.kind = Tok("Fn") -> ParseDefFunc(rest)
                   [] tok.kind = Tok("Type") -> ParseDefType(rest)
                   [] tok.kind = Tok("Struct") -> ParseDefStruct(rest)
                   [] OTHER ->
                        PrsFail(rest, PrsError("import, fn, or type expected", <<tok>>),
                                NoNode))

ParseProgramLoop(toks, nodes) ==
    IF toks = <<>> THEN PrsOk(toks, nodes)
    ELSE LET tok  == Head(toks)
             rest == Tail(toks)
             Push(n) == IF n.err # <<>> THEN PrsFail(n.toks, n.err[1], <<>>)
                        ELSE ParseProgramLoop(n.toks, Append(nodes, n.val))
         IN Push(CASE tok.kind = Tok("Import") -> ParseImport(rest)
                   [] tok.kind = Tok("Fn") -> ParseDefFunc(rest)
                   [] tok.kind = Tok("Type") -> ParseDefType(rest)
                   [] tok.kind = Tok("Struct") -> ParseDefStruct(rest)
                   [] OTHER ->
                        PrsFail(rest, PrsError("import, fn, or type expected", <<tok>>),
                                NoNode))

ParseProgram(toks) == ParseProgramLoop(toks, <<>>)

(***************************************************************************)
(* The token sequences handed to the parser: read_tokens of a source text, *)
(* as in test_parse_def.                                                   *)
(***************************************************************************)
\* The program of test_parse_def.
DefFixture ==
    <<"\n">>
    \o Indent \o <<"s", "t", "r", "u", "c", "t", " ", "P", "o", "i", "n", "t", " ", "{", "\n">>
    \o Indent \o <<" ", " ", " ", " ", "x", " ", "i", "n", "t", ",", "\n">>
    \o Indent \o <<" ", " ", " ", " ", "y", " ", "i", "n", "t", ",", "\n">>
    \o Indent \o <<"}", "\n">>
    \o Indent \o <<"f", "n", " ", "c", "o", "n", "c", "a", "t", "_", "p", "o", "i", "n", "t", "s",
                   "(", "p", "1", " ", "P", "o", "i", "n", "t", ",", " ",
                   "p", "2", " ", "P", "o", "i", "n", "t", ")", " ", "-", ">", " ",
                   "[", "]", "P", "o", "i", "n", "t", "\n">>
    \o <<" ", " ", " ", " ", " ", " ", " ", " ">>

\* A function definition written with a body.
BodyFixture == <<"f", "n", " ", "f", "(", ")", " ", "{", " ", "}">>

\* The words of a text, each followed by a space.
RECURSIVE Spaced(_)
Spaced(words) == IF words = <<>> THEN <<>> ELSE Head(words) \o <<" ">> \o Spaced(Tail(words))

StructOpening == <<<<"s", "t", "r", "u", "c", "t">>, <<"P">>, <<"{">>>>

FnOpening == <<<<"f", "n">>, <<"f">>, <<"(">>>>

PairWords == {<<"x">>, <<"y">>, <<",">>, <<")">>, <<"}">>}

TopWords ==
    {<<"i", "m", "p", "o", "r", "t">>, <<"t", "y", "p", "e">>, <<"f", "n">>,
     <<"x">>, <<"(">>, <<")">>, <<"[">>, <<"]">>, <<"-", ">">>}

\* The texts of an opening and at most n more words, those of at most m
\* words, and the fixture.
ParserTexts(n, m) ==
    {Spaced(opening \o list) :
        opening \in {StructOpening, FnOpening}, list \in SeqsUpTo(PairWords, n)}
    \cup {Spaced(words) : words \in SeqsUpTo(TopWords, m)}
    \cup {DefFixture, BodyFixture}

ParserInputs(texts) == {ReadTokens(NewLexer(text)).toks : text \in texts}

(***************************************************************************)
(* The parser as a state machine: a Parser over tokens, and parse_program. *)
(***************************************************************************)
PrsIdle ==
    /\ prsInput = <<>>
    /\ tokens = <<>>
    /\ prsResult = <<>>

PrsInit ==
    /\ prsInput \in ParserInputs(ParserTexts(MaxToks, MaxTop))
    /\ tokens = prsInput
    /\ prsResult = <<>>

\* parse_program: Ok(nodes) or Err(error), and the tokens it leaves.
ParseProgramCall ==
    /\ prsResult = <<>>
    /\ \E r \in {ParseProgram(tokens)} :
          /\ tokens' = r.toks
          /\ prsResult' = <<[err |-> r.err, nodes |-> r.val]>>
    /\ UNCHANGED <<prsInput, lexVars, evVars, envVars>>

(***************************************************************************)
(* Specifications, one for each component.                                 *)
(***************************************************************************)
InitLex == LexInit /\ EvIdle /\ EnvIdle /\ PrsIdle

NextLex == LexReadToken

SpecLex == InitLex /\ [][NextLex]_vars

InitEval == LexIdle /\ EvInit /\ EnvIdle /\ PrsIdle

NextEval == Eval

SpecEval == InitEval /\ [][NextEval]_vars

InitEnv == LexIdle /\ EvIdle /\ EnvInit /\ PrsIdle

NextEnv == EnvPush \/ EnvPop \/ EnvWrite \/ EnvRead \/ EnvEvalVariable

SpecEnv == InitEnv /\ [][NextEnv]_vars

InitParse == LexIdle /\ EvIdle /\ EnvIdle /\ PrsInit

NextParse == ParseProgramCall

SpecParse == InitParse /\ [][NextParse]_vars

\* The whole front end: a source text is tokenized, or its tokens parsed, or
\* an expression evaluated against an environment.
Init == InitLex \/ InitEval \/ InitEnv \/ InitParse

Next == NextLex \/ NextEval \/ NextEnv \/ NextParse

Spec == Init /\ [][Next]_vars

(***************************************************************************)
(* Claims about the tokenizer, under SpecLex.                              *)
(***************************************************************************)
Kinds(toks) == [i \in 1..Len(toks) |-> toks[i].kind]

\* read_token was called at least once (every call with input left reads).
LexStarted == lexStatus # "ready" \/ lexer # NewLexer(lexInput)

\* A string literal opened and never closed: a quote, then neither a quote
\* nor a backslash up to the end of the input.
UnterminatedString(text) ==
    /\ text # <<>>
    /\ text[1] = "\""
    /\ \A i \in 2..Len(text) : text[i] \notin {"\"", "\\"}

\* C1: tokenizing a string literal whose closing quote is missing before
\* the input ends returns an error, and never Ok with a StrLit token that
\* holds the truncated text.
C1_UnterminatedStringIsError ==
    (UnterminatedString(lexInput) /\ LexStarted)
        => (lexStatus = "err" /\ lexTokens = <<>>)

\* The token of a word of one character that is a token on its own.
AtomToken(c) ==
    CASE c = "a" -> TokText("Iden", <<"a">>)
      [] c = "1" -> TokInt(1)
      [] c = "=" -> Tok("Assign")
      [] c = "." -> Tok("Dot")

RECURSIVE NonSpaces(_)
NonSpaces(text) ==
    IF text = <<>> THEN <<>>
    ELSE IF IsWhitespace(Head(text)) THEN NonSpaces(Tail(text))
    ELSE <<Head(text)>> \o NonSpaces(Tail(text))

\* A text of one-character words with whitespace between any two of them.
SpacedAtoms(text) ==
    /\ \A i \in 1..Len(text) : IsWhitespace(text[i]) \/ text[i] \in {"a", "1", "=", "."}
    /\ \A i \in 1..(Len(text) - 1) : IsWhitespace(text[i]) \/ IsWhitespace(text[i + 1])

IsPrefix(s, t) == Len(s) <= Len(t) /\ SubSeq(t, 1, Len(s)) = s

\* C8: read_tokens skips spaces, tabs and newlines before each token and
\* emits no token for them, returns the tokens in source order, and ends
\* with Ok when the input is exhausted, trailing whitespace included; the
\* tokens of the loop fixture are exactly the sixteen test_lex_loop expects.
C8_SkipsWhitespaceInOrder ==
    /\ lexStatus = "done" => lexer.rest = <<>> /\ lexErr = <<>>
    /\ lexInput = LoopFixture =>
          /\ lexStatus # "err"
          /\ IsPrefix(Kinds(lexTokens), LoopExpected)
          /\ lexStatus = "done" => Kinds(lexTokens) = LoopExpected
    /\ SpacedAtoms(lexInput) =>
          LET atoms == NonSpaces(lexInput) IN
          /\ lexStatus # "err"
          /\ IsPrefix(Kinds(lexTokens), [i \in 1..Len(atoms) |-> AtomToken(atoms[i])])
          /\ lexStatus = "done" => Len(lexTokens) = Len(atoms)

C8_Witness ==
    /\ lexInput = LoopFixture
    /\ lexStatus = "done"
    /\ Kinds(lexTokens) = LoopExpected

\* A text that is one numeric lexeme: a digit, then digits, letters and '.'.
NumericLexeme(text) ==
    /\ text # <<>>
    /\ IsDigit(text[1])
    /\ \A i \in 1..Len(text) : IsAlphanumeric(text[i]) \/ text[i] = "."

HasDot(text) == \E i \in 1..Len(text) : text[i] = "."

\* C10: numeric scanning takes digits, letters and '.' into one lexeme; a
\* lexeme with a '.' is parsed as floating point and gives one FloatLit, a
\* lexeme without gives an IntLit, and a lexeme that does not parse as the
\* kind selected gives an error.
C10_NumericLexeme ==
    (NumericLexeme(lexInput) /\ LexStarted) =>
        IF HasDot(lexInput)
        THEN IF ParseF64(lexInput).ok
             THEN /\ lexStatus # "err"
                  /\ Kinds(lexTokens) = <<TokText("FloatLit", lexInput)>>
             ELSE lexStatus = "err"
        ELSE IF ParseI32(lexInput).ok
             THEN /\ lexStatus # "err"
                  /\ Kinds(lexTokens) = <<TokInt(ParseI32(lexInput).val)>>
             ELSE lexStatus = "err"

\* C11: every error the tokenizer returns carries the offending lexeme and
\* its source span, the left and the right position.
C11_ErrorCarriesLexemeAndSpan ==
    lexStatus = "err" =>
        /\ lexErr # <<>>
        /\ lexErr[1].text # <<>>
        /\ Len(lexErr[1].span) = 2

\* Position a is not after position b: by line, then by column.
PosLeq(a, b) == a.line < b.line \/ (a.line = b.line /\ a.col <= b.col)

\* C12: over the tokens of successive read_token calls the positions do not
\* decrease, in line and within a line in column, and the left position of
\* a token is not after its right position.
C12_PositionsMonotone ==
    /\ \A i \in 1..Len(lexTokens) : PosLeq(lexTokens[i].lpos, lexTokens[i].rpos)
    /\ \A i \in 1..(Len(lexTokens) - 1) :
          /\ PosLeq(lexTokens[i].lpos, lexTokens[i + 1].lpos)
          /\ PosLeq(lexTokens[i].rpos, lexTokens[i + 1].lpos)
    /\ \A i \in 1..Len(lexTokens) : PosLeq(lexTokens[i].rpos, lexer.pos)

\* Two tokens read, the second on a later line than the start of the first.
C12_Witness ==
    /\ Len(lexTokens) = 2
    /\ lexTokens[1].lpos.line = 0
    /\ lexTokens[2].lpos.line = 1

\* The position after the characters of text, each one counted: a newline
\* starts a line at column zero, any other character is one column.
RECURSIVE PositionAfter(_, _)
PositionAfter(text, pos) ==
    IF text = <<>> THEN pos
    ELSE PositionAfter(Tail(text),
                       IF Head(text) = "\n"
                       THEN Position(pos.line + 1, 0)
                       ELSE Position(pos.line, pos.col + 1))

\* The characters the tokenizer has consumed.
Consumed == SubSeq(lexInput, 1, Len(lexInput) - Len(lexer.rest))

\* C17: every character the tokenizer consumes updates the position: a
\* newline adds one to the line and sets the column to zero, every other
\* character, skipped whitespace and the later characters of a token
\* included, adds one to the column.
C17_EveryCharacterCounted ==
    lexer.pos = PositionAfter(Consumed, Position(0, 0))

(***************************************************************************)
(* Claims about the evaluator, under SpecEval and SpecEnv.                 *)
(***************************************************************************)
\* C2: evaluating a variable expression looks the identifier up in the top
\* frame of the environment: the stored value when it is there, the error
\* Undefined naming the identifier when it is not.
C2_VariableLookup ==
    envOp.name = "eval" => envResult = <<EnvReadOf(frames, envOp.iden).res>>

Evaluated == evResult # <<>>

\* C3: eval_expr ends by returning a Constant or a RunErr for every
\* expression; no evaluation panics.
C3_EvalNeverPanics ==
    Evaluated => evResult[1].tag \in {"Ok", "Err"}

IsConstantOf(e, tag) == e.tag = "Constant" /\ e.c.tag = tag

\* C4: for every Int a, a / 0 returns a RunErr: not an Int, not an abort.
C4_DivideByZeroIsError ==
    (/\ Evaluated
     /\ evExpr.tag = "BinArith"
     /\ evExpr.op = "Divide"
     /\ IsConstantOf(evExpr.kids[1], "Int")
     /\ evExpr.kids[2] = ConstantE(IntC(0)))
        => evResult[1].tag = "Err"

\* C5: for two constants of different variants, each of <, <=, >, >=
\* returns a Type error and not a boolean.
C5_CrossVariantOrderingIsTypeError ==
    (/\ Evaluated
     /\ evExpr.tag = "BinBool"
     /\ evExpr.op \in {"Lt", "Leq", "Gt", "Geq"}
     /\ evExpr.kids[1].tag = "Constant"
     /\ evExpr.kids[2].tag = "Constant"
     /\ evExpr.kids[1].c.tag # evExpr.kids[2].c.tag)
        => (evResult[1].tag = "Err" /\ evResult[1].kind = "Type")

\* The operand pairings of + - * / that give a value.
LegalPairing(op, a, b) ==
    \/ a.tag = "Int" /\ b.tag = "Int"
    \/ a.tag = "Float" /\ b.tag = "Float"
    \/ op = "Add" /\ a.tag = "String" /\ b.tag = "String"
    \/ op = "Multiply" /\ a.tag = "String" /\ b.tag = "Int"

\* The operands of the binary expression evaluated both gave a value.
OperandsOk ==
    /\ Evaluated
    /\ evExpr.tag = "BinArith"
    /\ EvalExpr(evExpr.kids[1]).tag = "Ok"
    /\ EvalExpr(evExpr.kids[2]).tag = "Ok"

\* C6: of the operand pairings of + - * /, only Int with Int, Float with
\* Float, String + String and String * Int (the string on the left) give a
\* value, of the variant of the left operand; every other pairing gives
\* RunErr::Type, and no operand is coerced.
C6_ArithmeticPairings ==
    OperandsOk =>
        LET a == EvalExpr(evExpr.kids[1]).val
            b == EvalExpr(evExpr.kids[2]).val
            r == evResult[1]
        IN /\ ~LegalPairing(evExpr.op, a, b) => (r.tag = "Err" /\ r.kind = "Type")
           /\ r.tag = "Ok" => (LegalPairing(evExpr.op, a, b) /\ r.val.tag = a.tag)

C6_Witness ==
    /\ evExpr = BinArithE("Add", ConstantE(IntC(1)), ConstantE(BoolC(TRUE)))
    /\ evResult # <<>>
    /\ evResult[1].tag = "Err"
    /\ evResult[1].kind = "Type"

\* C7: String(s) * Int(n) is s repeated n times when n > 0 and the empty
\* string when n <= 0, and never an error.
C7_StringRepeat ==
    (OperandsOk /\ evExpr.op = "Multiply") =>
        LET a == EvalExpr(evExpr.kids[1]).val
            b == EvalExpr(evExpr.kids[2]).val
            r == evResult[1]
            n == IF b.int > 0 THEN b.int ELSE 0
        IN (a.tag = "String" /\ b.tag = "Int") =>
              /\ r.tag = "Ok"
              /\ r.val.tag = "String"
              /\ Len(r.val.str) = n * Len(a.str)
              /\ \A i \in 1..Len(r.val.str) :
                    r.val.str[i] = a.str[((i - 1) % Len(a.str)) + 1]

C7_Witness ==
    /\ evExpr = BinArithE("Multiply", ConstantE(StringC(<<"a", "b">>)), ConstantE(IntC(3)))
    /\ evResult = <<EvOk(StringC(<<"a", "b", "a", "b", "a", "b">>))>>

(***************************************************************************)
(* Claims about the environment, under SpecEnv.                            *)
(***************************************************************************)
\* The frames under the top frame.
Outer(fs) == SubSeq(fs, 1, Len(fs) - 1)

\* iden is bound in the top frame of fs.
BoundInTop(fs, iden) == fs # <<>> /\ Find(fs[Len(fs)], iden, 1) # 0

\* C13: reads and writes see only the top frame.  push puts an empty frame
\* over the frames there were; a read or a write over an outer frame gives
\* Undefined for an identifier the top frame does not bind and leaves
\* every outer frame as it was; pop takes the top frame off, so the outer
\* bindings are there again with the values they had before the push.
C13_OnlyTopFrameVisible ==
    [][/\ envOp'.name = "push" =>
             (Outer(frames') = frames /\ frames'[Len(frames')] = <<>>)
       /\ (envOp'.name \in {"read", "write"} /\ Len(frames) >= 2) =>
             /\ Outer(frames') = Outer(frames)
             /\ ~BoundInTop(frames, envOp'.iden) =>
                    envResult' = <<Undefined(envOp'.iden)>>
       /\ (envOp'.name = "pop" /\ frames # <<>>) => frames' = Outer(frames)]_vars

\* x is read over a frame that binds it, in a top frame that does not.
C13_Witness ==
    /\ envOp = EnvOp("read", "x")
    /\ Len(frames) = 2
    /\ Find(frames[1], "x", 1) # 0
    /\ Find(frames[2], "x", 1) = 0
    /\ envResult = <<Undefined("x")>>

\* C14: a frame is a last-write-wins mapping: after write(x, v) the top
\* frame binds x once, to a value a read of x returns, and the write did
\* not return Undefined.
C14_LastWriteWins ==
    envOp.name = "write" =>
        /\ envResult = <<EvOk(IntC(0))>>
        /\ BoundInTop(frames, envOp.iden)
        /\ EnvReadOf(frames, envOp.iden).res.tag = "Ok"

\* C18: the number of frames changes only through push, one more, and pop,
\* one fewer or none on an empty environment; read and write leave it.
C18_FrameCountByPushPop ==
    [][/\ envOp'.name = "push" => Len(frames') = Len(frames) + 1
       /\ envOp'.name = "pop" =>
             Len(frames') = IF frames = <<>> THEN 0 ELSE Len(frames) - 1
       /\ envOp'.name \in {"read", "write"} => Len(frames') = Len(frames)]_vars

(***************************************************************************)
(* Claims about the parser, under SpecParse.                               *)
(***************************************************************************)
Parsed == prsResult # <<>>

IdenTok(name) == TokText("Iden", name)

\* The two declarations that hold a list of typed pairs: the tokens that
\* open the list, its terminator and the node it makes.
PairLists ==
    {[opening |-> <<Tok("Struct"), IdenTok(<<"P">>), Tok("LBrace")>>,
      term |-> Tok("RBrace"), tag |-> "DefStruct", iden |-> <<"P">>],
     [opening |-> <<Tok("Fn"), IdenTok(<<"f">>), Tok("LParen")>>,
      term |-> Tok("RParen"), tag |-> "DefFunc", iden |-> <<"f">>]}

PairTokens ==
    {IdenTok(<<"x">>), IdenTok(<<"y">>), Tok("Comma"), Tok("RParen"), Tok("RBrace")}

\* The input is the opening of d and then only names, commas and closers.
OpensList(d, kinds) ==
    /\ Len(kinds) >= 3
    /\ SubSeq(kinds, 1, 3) = d.opening
    /\ \A i \in 4..Len(kinds) : kinds[i] \in PairTokens

\* The list is name type pairs with a comma after each but possibly the
\* last, then the terminator, and nothing after it.
WellFormedList(list, term) ==
    LET n == Len(list) IN
    /\ n >= 1
    /\ list[n] = term
    /\ (n - 1) % 3 # 1
    /\ \A i \in 1..(n - 1) :
          IF i % 3 = 0 THEN list[i] = Tok("Comma") ELSE list[i].kind = "Iden"

ListPairs(list) ==
    [j \in 1..(Len(list) \div 3) |->
        TypePair(list[3 * j - 2].text, TypeIden(list[3 * j - 1].text))]

DefFixtureTokens == ReadTokens(NewLexer(DefFixture)).toks

Point == <<"P", "o", "i", "n", "t">>

\* The nodes test_parse_def expects.
DefExpected ==
    <<Node("DefStruct", Point,
           <<TypePair(<<"x">>, TypeIden(<<"i", "n", "t">>)),
             TypePair(<<"y">>, TypeIden(<<"i", "n", "t">>))>>,
           <<>>, <<>>, <<>>),
      Node("DefFunc", <<"c", "o", "n", "c", "a", "t", "_", "p", "o", "i", "n", "t", "s">>,
           <<TypePair(<<"p", "1">>, TypeIden(Point)), TypePair(<<"p", "2">>, TypeIden(Point))>>,
           <<TypeArray(TypeIden(Point))>>, <<>>, <<>>)>>

\* C9: parse_type_pairs, for the parameters of a function (terminator ')')
\* and the fields of a struct (terminator '}'), accepts zero or more name
\* type pairs with commas between them, accepts a comma directly before
\* the terminator, rejects two pairs with no comma between them, consumes
\* the terminator and returns the pairs in source order; the fixture of
\* test_parse_def parses to the struct and the function it expects.
C9_TypePairs ==
    Parsed =>
        /\ \A d \in PairLists :
              OpensList(d, Kinds(prsInput)) =>
                  LET list == SubSeq(Kinds(prsInput), 4, Len(prsInput)) IN
                  IF WellFormedList(list, d.term)
                  THEN /\ prsResult[1].err = <<>>
                       /\ prsResult[1].nodes =
                             <<Node(d.tag, d.iden, ListPairs(list), <<>>, <<>>, <<>>)>>
                       /\ tokens = <<>>
                  ELSE /\ prsResult[1].err # <<>>
                       /\ prsResult[1].nodes = <<>>
        /\ prsInput = DefFixtureTokens =>
              /\ prsResult[1].err = <<>>
              /\ prsResult[1].nodes = DefExpected

\* A struct with one field and a comma before the closing brace, parsed.
C9_Witness ==
    /\ Parsed
    /\ Kinds(prsInput) =
          <<Tok("Struct"), IdenTok(<<"P">>), Tok("LBrace"),
            IdenTok(<<"x">>), IdenTok(<<"y">>), Tok("Comma"), Tok("RBrace")>>
    /\ prsResult[1].err = <<>>
    /\ prsResult[1].nodes[1].pairs = <<TypePair(<<"x">>, TypeIden(<<"y">>))>>

\* The tokens that open a top-level declaration.
TopKeywords == {Tok("Import"), Tok("Fn"), Tok("Type"), Tok("Struct")}

\* The node a top-level keyword starts.
TagOf(kind) ==
    CASE kind = Tok("Import") -> "Import"
      [] kind = Tok("Fn") -> "DefFunc"
      [] kind = Tok("Type") -> "DefTypeAlias"
      [] kind = Tok("Struct") -> "DefStruct"
      [] OTHER -> "None"

\* C15: parse_program ends, for every token sequence, with the ordered
\* list of top-level nodes and every token consumed, or with one error and
\* no nodes; a leading token that is not import, fn, type or struct, and
\* the end of the input in the middle of a declaration, give an error
\* value and never a partly built list of nodes.
C15_ParseProgramTotal ==
    /\ ~Parsed => Len(ParseProgram(tokens).err) <= 1
    /\ Parsed =>
          LET r == prsResult[1]
              kinds == Kinds(prsInput)
          IN /\ \/ /\ r.err = <<>>
                   /\ tokens = <<>>
                   /\ Len(r.nodes) <= Cardinality({i \in 1..Len(kinds) : kinds[i] \in TopKeywords})
                   /\ \A i \in 1..Len(r.nodes) : r.nodes[i].tag \in
                         {"Import", "DefFunc", "DefTypeAlias", "DefStruct"}
                   /\ kinds # <<>> => (r.nodes # <<>> /\ r.nodes[1].tag = TagOf(kinds[1]))
                \/ /\ Len(r.err) = 1
                   /\ r.nodes = <<>>
             /\ (kinds # <<>> /\ kinds[1] \notin TopKeywords) => r.err # <<>>
             /\ (kinds # <<>> /\ kinds[Len(kinds)] \in TopKeywords) => r.err # <<>>
             /\ kinds = <<>> => (r.err = <<>> /\ r.nodes = <<>>)

\* An import parsed, then a declaration the input ends in the middle of.
C15_Witness ==
    /\ Parsed
    /\ Kinds(prsInput) = <<Tok("Import"), IdenTok(<<"x">>), Tok("Fn")>>
    /\ prsResult[1].err # <<>>
    /\ prsResult[1].nodes = <<>>

\* The input is fn f ( ) and then a body in braces.
FuncWithBody(kinds) ==
    /\ Len(kinds) >= 6
    /\ SubSeq(kinds, 1, 5) =
          <<Tok("Fn"), IdenTok(<<"f">>), Tok("LParen"), Tok("RParen"), Tok("LBrace")>>
    /\ kinds[Len(kinds)] = Tok("RBrace")

\* C16: a function definition written with its body is accepted by
\* parse_program and gives one DefFunc node; the tokens of the body are
\* consumed as part of the definition and the top-level dispatch does not
\* see them.
C16_FuncBodyParsed ==
    (Parsed /\ FuncWithBody(Kinds(prsInput))) =>
        /\ prsResult[1].err = <<>>
        /\ Len(prsResult[1].nodes) = 1
        /\ prsResult[1].nodes[1].tag = "DefFunc"
        /\ tokens = <<>>

\* C19: ! of an operand that evaluates to Bool(b) is Bool(not b), and of
\* any other value a Type error; - of Int(n) or Float(n) is the number
\* negated, and of any other value a Type error; an error of the operand
\* is returned as it is.
C19_UnaryEvaluation ==
    (Evaluated /\ evExpr.tag = "Unary" /\ EvalExpr(evExpr.kids[1]).tag # "Panic") =>
        LET a == EvalExpr(evExpr.kids[1])
            r == evResult[1]
        IN IF a.tag = "Err" THEN r = a
           ELSE IF evExpr.op = "Not"
           THEN IF a.val.tag = "Bool" THEN r = EvOk(BoolC(~a.val.bool))
                ELSE r.tag = "Err" /\ r.kind = "Type"
           ELSE IF a.val.tag = "Int" THEN r = EvOk(IntC(0 - a.val.int))
           ELSE IF a.val.tag = "Float" THEN r = EvOk(FloatC(FNeg(a.val.flt)))
           ELSE r.tag = "Err" /\ r.kind = "Type"

====
